---- MODULE Spec2Model ----
(***************************************************************************)
(* A model of gs2mesh_utils/colmap_utils.py: the frame extractor           *)
(* (extract_frames), the two COLMAP orchestrations (run_colmap,            *)
(* run_colmap_known_poses) and the known-pose file synthesizer             *)
(* (create_mobile_brick_colmap_files).                                     *)
(*                                                                         *)
(* The three parts share no state in the program; each has its own         *)
(* specification (Spec for the frame extractor, SpecColmap, SpecBrick).    *)
(***************************************************************************)
EXTENDS Integers, Sequences, FiniteSets, TLC

VARIABLES
    \* ---- extract_frames -------------------------------------------------
    folderExists,   \* os.path.exists(output_folder)
    files,          \* output folder: file name -> image it holds
    video,          \* the video of the current call
    interval,       \* the interval of the current call
    pc,             \* "ready", "while", "returned", "raised"
    count,          \* local count
    success,        \* local success
    image,          \* local image (the frame last read)
    nreads,         \* number of vidcap.read() calls of the current call
    reported,       \* "Error: Could not open video." was printed by this call
    run,            \* number of calls made so far
    preFiles,       \* folder content when the current call began
    preExists,      \* folderExists when the current call began
    wlog,           \* every cv2.imwrite so far, in order: <<name, image>>
    \* ---- run_colmap, run_colmap_known_poses -------------------------------
    cfn,            \* the function called: "none", "run_colmap", "run_colmap_known_poses"
    colmap_dir,     \* argument colmap_dir (path components)
    use_gpu,        \* argument use_gpu
    images_dir_name,\* argument images_dir_name
    cpc,            \* the statement to execute next, or "returned" / "raised"
    cmds,           \* the steps issued so far, in order
    exits,          \* the exit status os.system returned for each shell step
    sparseExists,   \* os.path.exists(<colmap_dir>/sparse)
    sparseBefore,   \* sparseExists when the function was called
    \* ---- create_mobile_brick_colmap_files ---------------------------------
    poseDir,        \* <orig_dir>/pose: file name -> 4x4 matrix it holds
    intrDir,        \* <orig_dir>/intrinsic: file name -> 3x3 matrix it holds
    imgDir,         \* <orig_dir>/images: the file names
    bpc,            \* "ready", "b253", "b261", "returned", "raised"
    imagesTxt,      \* sparse/0/images.txt: [exists, lines]
    camerasTxt,     \* sparse/0/cameras.txt
    pointsTxt       \* sparse/0/points3D.txt

framesVars == <<folderExists, files, video, interval, pc, count, success, image,
                nreads, reported, run, preFiles, preExists, wlog>>

colmapVars == <<cfn, colmap_dir, use_gpu, images_dir_name, cpc, cmds, exits,
                sparseExists, sparseBefore>>

brickVars == <<poseDir, intrDir, imgDir, bpc, imagesTxt, camerasTxt, pointsTxt>>

notFrames == <<colmapVars, brickVars>>

notColmap == <<framesVars, brickVars>>

notBrick == <<framesVars, colmapVars>>

vars == <<framesVars, colmapVars, brickVars>>

\* ---------------------------------------------------------------------------
\* Bounds
\* ---------------------------------------------------------------------------
MaxFrames == 3
MaxInterval == 2
MaxRuns == 2
MaxFiles == 2

\* ---------------------------------------------------------------------------
\* Helpers
\* ---------------------------------------------------------------------------
Min(a, b) == IF a <= b THEN a ELSE b

EmptyFolder == [n \in {} |-> <<>>]

\* Python's a % b for b # 0: the result has the sign of b.
PyMod(a, b) == IF b > 0 THEN a % b ELSE -((-a) % (-b))

RECURSIVE Digits(_)
\* decimal digits of a natural number, most significant first (format 'd')
Digits(n) == IF n < 10 THEN <<n>> ELSE Digits(n \div 10) \o <<n % 10>>

RECURSIVE Zeros(_)
Zeros(n) == IF n <= 0 THEN <<>> ELSE <<0>> \o Zeros(n - 1)

PadWidth == 5

\* f"{count:05}": zero-padded to a minimum width of 5
Format05(c) == Zeros(PadWidth - Len(Digits(c))) \o Digits(c)

\* f"IMG_{count:05}.png"
FrameName(c) == [prefix |-> "IMG_", digits |-> Format05(c), ext |-> ".png"]

\* ---------------------------------------------------------------------------
\* extract_frames (colmap_utils.py 67-111)
\* ---------------------------------------------------------------------------
\* A video: whether cv2.VideoCapture opens it, and the outcome of each read in
\* order (reads past the end fail).
Videos == { [opens |-> o, reads |-> r] :
              o \in BOOLEAN,
              r \in UNION { [1..n -> BOOLEAN] : n \in 0..MaxFrames } }

Intervals == (-1)..MaxInterval

\* vidcap.read() number j (1-based) of video v: its success flag
ReadOk(v, j) == j <= Len(v.reads) /\ v.reads[j]

\* number of frames read successfully before the first failed read
RECURSIVE ReadableFrom(_, _)
ReadableFrom(v, j) == IF ReadOk(v, j) THEN 1 + ReadableFrom(v, j + 1) ELSE 0

NReadable(v) == ReadableFrom(v, 1)

ReturnsEarly_mut(v) == FALSE

\* line 89: if not vidcap.isOpened(): ... return
ReturnsEarly(v) == ~v.opens

FolderAfterMakedirs_mut(exists, fs) == EmptyFolder

\* lines 80-86: os.makedirs only when the folder is absent; an existing folder
\* is left as it is
FolderAfterMakedirs(exists, fs) == IF exists THEN fs ELSE EmptyFolder

WritesFrame_mut(c, k) == PyMod(c + 1, k) = 0

\* line 106: count % interval == 0 (interval # 0)
WritesFrame(c, k) == PyMod(c, k) = 0

\* cv2.imwrite(path, image): creates or overwrites the file of that name
ImWrite(fs, name, img) ==
    [n \in DOMAIN fs \cup {name} |-> IF n = name THEN img ELSE fs[n]]

\* lines 80-101: the call up to the first read
Call(v, k) ==
    /\ UNCHANGED notFrames
    /\ pc \in {"ready", "returned", "raised"}
    /\ run < MaxRuns
    /\ run' = run + 1
    /\ video' = v
    /\ interval' = k
    /\ preFiles' = files
    /\ preExists' = folderExists
    /\ folderExists' = TRUE
    /\ files' = FolderAfterMakedirs(folderExists, files)
    /\ count' = 0
    /\ IF ReturnsEarly(v)
         THEN /\ reported' = TRUE
              /\ pc' = "returned"
              /\ nreads' = 0
              /\ success' = FALSE
              /\ image' = <<>>
         ELSE /\ reported' = FALSE
              /\ pc' = "while"
              /\ nreads' = 1
              /\ success' = ReadOk(v, 1)
              /\ image' = <<run + 1, 0>>
    /\ UNCHANGED wlog

StartCall == \E v \in Videos, k \in Intervals : Call(v, k)

\* lines 108-109: read the next frame, count += 1
ReadNext ==
    /\ nreads' = nreads + 1
    /\ success' = ReadOk(video, nreads + 1)
    /\ image' = <<run, nreads>>
    /\ count' = count + 1

\* lines 105-109, count % interval == 0: the frame is written
IterWrite ==
    /\ UNCHANGED notFrames
    /\ pc = "while" /\ success
    /\ interval # 0
    /\ WritesFrame(count, interval)
    /\ files' = ImWrite(files, FrameName(count), image)
    /\ wlog' = Append(wlog, <<FrameName(count), image>>)
    /\ ReadNext
    /\ UNCHANGED <<folderExists, video, interval, pc, reported, run, preFiles, preExists>>

\* lines 105-109, count % interval # 0: the frame is skipped
IterSkip ==
    /\ UNCHANGED notFrames
    /\ pc = "while" /\ success
    /\ interval # 0
    /\ ~WritesFrame(count, interval)
    /\ ReadNext
    /\ UNCHANGED <<folderExists, files, video, interval, pc, reported, run,
                   preFiles, preExists, wlog>>

\* line 106 with interval = 0: count % 0 raises ZeroDivisionError
IterRaise ==
    /\ UNCHANGED notFrames
    /\ pc = "while" /\ success
    /\ interval = 0
    /\ pc' = "raised"
    /\ UNCHANGED <<folderExists, files, video, interval, count, success, image,
                   nreads, reported, run, preFiles, preExists, wlog>>

\* line 105: success is False, the loop ends and the function returns
LoopExit ==
    /\ UNCHANGED notFrames
    /\ pc = "while" /\ ~success
    /\ pc' = "returned"
    /\ UNCHANGED <<folderExists, files, video, interval, count, success, image,
                   nreads, reported, run, preFiles, preExists, wlog>>

FramesIdle ==
    /\ folderExists = FALSE
    /\ files = EmptyFolder
    /\ video = [opens |-> FALSE, reads |-> <<>>]
    /\ interval = 1
    /\ pc = "ready"
    /\ count = 0
    /\ success = FALSE
    /\ image = <<>>
    /\ nreads = 0
    /\ reported = FALSE
    /\ run = 0
    /\ preFiles = EmptyFolder
    /\ preExists = FALSE
    /\ wlog = <<>>

ColmapIdle ==
    /\ cfn = "none"
    /\ colmap_dir = <<>>
    /\ use_gpu = TRUE
    /\ images_dir_name = "images"
    /\ cpc = "ready"
    /\ cmds = <<>>
    /\ exits = <<>>
    /\ sparseExists = FALSE
    /\ sparseBefore = FALSE

NoFile == [exists |-> FALSE, lines |-> <<>>]

BrickIdle ==
    /\ poseDir = <<>>
    /\ intrDir = <<>>
    /\ imgDir = {}
    /\ bpc = "ready"
    /\ imagesTxt = NoFile
    /\ camerasTxt = NoFile
    /\ pointsTxt = NoFile

Init ==
    /\ ColmapIdle
    /\ BrickIdle
    /\ folderExists \in BOOLEAN
    /\ files = EmptyFolder
    /\ video = [opens |-> FALSE, reads |-> <<>>]
    /\ interval = 1
    /\ pc = "ready"
    /\ count = 0
    /\ success = FALSE
    /\ image = <<>>
    /\ nreads = 0
    /\ reported = FALSE
    /\ run = 0
    /\ preFiles = EmptyFolder
    /\ preExists = FALSE
    /\ wlog = <<>>

Next == StartCall \/ IterWrite \/ IterSkip \/ IterRaise \/ LoopExit

Spec == Init /\ [][Next]_vars

\* ---------------------------------------------------------------------------
\* Properties of extract_frames
\* ---------------------------------------------------------------------------
Ceil(n, k) == (n + k - 1) \div k

\* the names a run over n readable frames with interval k >= 1 is to write
ExpectedNames(n, k) == { FrameName(c) : c \in { d \in 0..(n - 1) : d % k = 0 } }

WrittenNames == { wlog[i][1] : i \in DOMAIN wlog }

LastWrite(name) ==
    LET idx == { i \in DOMAIN wlog : wlog[i][1] = name }
    IN  wlog[CHOOSE i \in idx : \A j \in idx : j <= i][2]

\* C4: a run over a video of N readable frames with interval k >= 1 into a
\* folder holding no frame files leaves exactly ceil(N/k) files, named
\* IMG_<c, 5 digits zero-padded>.png for exactly the c < N with c mod k = 0,
\* each holding frame c of the video, and it made N + 1 reads (it stopped at
\* the first failed read, whatever the stream holds after it).
C4_FramesWritten ==
    (pc = "returned" /\ video.opens /\ interval >= 1 /\ DOMAIN preFiles = {}) =>
        LET N == NReadable(video)
        IN  /\ DOMAIN files = ExpectedNames(N, interval)
            /\ Cardinality(DOMAIN files) = Ceil(N, interval)
            /\ \A c \in 0..(N - 1) :
                 c % interval = 0 =>
                   /\ Len(FrameName(c).digits) = 5
                   /\ files[FrameName(c)] = <<run, c>>
            /\ \A c, d \in 0..(N - 1) : FrameName(c) = FrameName(d) => c = d
            /\ nreads = N + 1
            /\ count = N

C4_Witness ==
    /\ pc = "returned" /\ video.opens /\ DOMAIN preFiles = {}
    /\ interval = 2
    /\ NReadable(video) = 3
    /\ Cardinality(DOMAIN files) = 2

\* a stream whose first failed read is followed by a readable frame
C4_WitnessStopsEarly ==
    /\ pc = "returned" /\ video.opens /\ DOMAIN preFiles = {}
    /\ interval = 1
    /\ NReadable(video) = 1
    /\ Len(video.reads) = 3 /\ video.reads[3]

\* C5: the interval is guarded as interval >= 1: the modulo test is never
\* reached with a zero or negative interval, no ZeroDivisionError is raised
\* and no frame is written under a non-positive interval.
C5_IntervalGuarded ==
    /\ (pc = "while" /\ success) => interval >= 1
    /\ pc # "raised"
    /\ (interval <= 0 /\ run >= 1) => files = FolderAfterMakedirs(preExists, preFiles)

\* C6: a call on a video that does not open reports the failure, raises
\* nothing and returns having read no frame and written no frame file, the
\* folder's files being those it held before the call (none when it was
\* absent).
C6_OpenFailure ==
    (run >= 1 /\ ~video.opens) =>
        /\ pc = "returned"
        /\ reported
        /\ nreads = 0
        /\ files = preFiles
        /\ (~preExists => DOMAIN files = {})

C6_Witness ==
    /\ run = 2 /\ ~video.opens /\ pc = "returned"
    /\ preExists /\ DOMAIN preFiles # {}

C6_WitnessAbsent ==
    /\ run = 1 /\ ~video.opens /\ pc = "returned" /\ ~preExists

\* C10: extract_frames never removes a file of its output folder: at every
\* moment the folder's files are exactly the names written so far by all the
\* runs, each holding the image of the last write to that name; hence a run
\* over N readable frames with interval k >= 1 leaves exactly ceil(N/k) files
\* if and only if the folder held no name outside the multiples of k below N
\* when the run began.
C10_FolderIsUnionOfRuns ==
    /\ DOMAIN files = WrittenNames
    /\ \A n \in DOMAIN files : files[n] = LastWrite(n)
    /\ DOMAIN preFiles \subseteq DOMAIN files
    /\ (pc = "returned" /\ video.opens /\ interval >= 1) =>
         LET N == NReadable(video)
         IN  /\ DOMAIN files = DOMAIN preFiles \cup ExpectedNames(N, interval)
             /\ (Cardinality(DOMAIN files) = Ceil(N, interval))
                  <=> (DOMAIN preFiles \subseteq ExpectedNames(N, interval))

\* a second run with a larger interval over a shorter video: the folder keeps
\* a frame of the first run and holds more than ceil(N/k) files
C10_Witness ==
    /\ run = 2 /\ pc = "returned" /\ video.opens /\ interval = 2
    /\ NReadable(video) = 2
    /\ Cardinality(DOMAIN files) = 3
    /\ \E n \in DOMAIN files : files[n][1] = 1
    /\ \E n \in DOMAIN files : files[n][1] = 2 /\ n \in DOMAIN preFiles

\* ---------------------------------------------------------------------------
\* run_colmap, run_colmap_known_poses, convert_to_txt (colmap_utils.py 166-215)
\* ---------------------------------------------------------------------------
ColmapDirs == { <<"scan">>, <<"data", "scan">> }

ImageDirNames == { "images", "image" }

ExitStatuses == { 0, 1 }

\* os.path.join of a path with further (relative) components
Join(path, parts) == path \o parts

\* {'1' if use_gpu else '0'}
GpuFlag(g) == IF g THEN "1" ELSE "0"

Proceeds_mut(e) == e = 0

\* the value os.system returns is discarded at every call site: the next
\* statement runs whatever the exit status
Proceeds(e) == TRUE

\* lines 190, 211: rm -rf <colmap_dir>/<images>/.ipynb_checkpoints
CleanupCmd(dir, imgs) ==
    [prog |-> "rm", sub |-> "-rf",
     args |-> [path |-> Join(dir, <<imgs, ".ipynb_checkpoints">>)]]

\* line 191: feature extraction of run_colmap
RcFeatureCmd(dir, g) ==
    [prog |-> "colmap", sub |-> "feature_extractor",
     args |-> [database_path |-> Join(dir, <<"database.db">>),
               image_path |-> Join(dir, <<"images">>),
               single_camera |-> "1",
               camera_model |-> "PINHOLE",
               use_gpu |-> GpuFlag(g)]]

KpFeatureCmd_mut(dir, g, imgs) ==
    [prog |-> "colmap", sub |-> "feature_extractor",
     args |-> [database_path |-> Join(dir, <<"database.db">>),
               image_path |-> Join(dir, <<imgs>>),
               use_gpu |-> GpuFlag(g)]]

\* line 212: feature extraction of run_colmap_known_poses
KpFeatureCmd(dir, g, imgs) ==
    [prog |-> "colmap", sub |-> "feature_extractor",
     args |-> [database_path |-> Join(dir, <<"database.db">>),
               image_path |-> Join(dir, <<imgs>>),
               use_gpu |-> GpuFlag(g),
               camera_model |-> "PINHOLE"]]

\* lines 192, 213: exhaustive matching
MatcherCmd(dir, g) ==
    [prog |-> "colmap", sub |-> "exhaustive_matcher",
     args |-> [database_path |-> Join(dir, <<"database.db">>),
               use_gpu |-> GpuFlag(g)]]

\* lines 193-195: create <colmap_dir>/sparse unless it exists
EnsureSparseStep(dir, exists) ==
    [prog |-> "python", sub |-> "makedirs_if_absent",
     args |-> [path |-> Join(dir, <<"sparse">>), made |-> ~exists]]

\* line 196: incremental mapping
MapperCmd(dir) ==
    [prog |-> "colmap", sub |-> "mapper",
     args |-> [database_path |-> Join(dir, <<"database.db">>),
               image_path |-> Join(dir, <<"images">>),
               output_path |-> Join(dir, <<"sparse">>),
               num_threads |-> "16",
               init_min_tri_angle |-> "4",
               multiple_models |-> "0",
               extract_colors |-> "0"]]

TriangulatorCmd_mut(dir, imgs) ==
    [prog |-> "colmap", sub |-> "point_triangulator",
     args |-> [clear_points |-> "1",
               database_path |-> Join(dir, <<"database.db">>),
               image_path |-> Join(dir, <<imgs>>),
               input_path |-> Join(dir, <<"sparse", "0">>),
               output_path |-> Join(dir, <<"sparse">>)]]

\* line 214: point triangulation
TriangulatorCmd(dir, imgs) ==
    [prog |-> "colmap", sub |-> "point_triangulator",
     args |-> [clear_points |-> "1",
               database_path |-> Join(dir, <<"database.db">>),
               image_path |-> Join(dir, <<imgs>>),
               input_path |-> Join(dir, <<"sparse", "0">>),
               output_path |-> Join(dir, <<"sparse", "0">>)]]

\* line 176: convert_to_txt
ConvertCmd(dir) ==
    [prog |-> "colmap", sub |-> "model_converter",
     args |-> [input_path |-> Join(dir, <<"sparse", "0">>),
               output_path |-> Join(dir, <<"sparse", "0">>),
               output_type |-> "TXT"]]

\* os.system(cmd): the command runs and exits with some status
System(cmd, next) ==
    /\ \E e \in ExitStatuses :
         /\ exits' = Append(exits, e)
         /\ cpc' = IF Proceeds(e) THEN next ELSE "raised"
    /\ cmds' = Append(cmds, cmd)
    /\ UNCHANGED <<cfn, colmap_dir, use_gpu, images_dir_name, sparseExists, sparseBefore>>
    /\ UNCHANGED notColmap

\* run_colmap(colmap_dir, use_gpu) is called
CallRunColmap(d, g) ==
    /\ cpc = "ready"
    /\ cfn' = "run_colmap"
    /\ colmap_dir' = d
    /\ use_gpu' = g
    /\ cpc' = "rc190"
    /\ sparseBefore' = sparseExists
    /\ UNCHANGED <<images_dir_name, cmds, exits, sparseExists>>
    /\ UNCHANGED notColmap

StartRunColmap == \E d \in ColmapDirs, g \in BOOLEAN : CallRunColmap(d, g)

RcCleanup == cpc = "rc190" /\ System(CleanupCmd(colmap_dir, "images"), "rc191")

RcFeatureExtractor == cpc = "rc191" /\ System(RcFeatureCmd(colmap_dir, use_gpu), "rc192")

RcMatcher == cpc = "rc192" /\ System(MatcherCmd(colmap_dir, use_gpu), "rc193")

\* lines 193-195
RcEnsureSparse ==
    /\ cpc = "rc193"
    /\ cmds' = Append(cmds, EnsureSparseStep(colmap_dir, sparseExists))
    /\ sparseExists' = TRUE
    /\ cpc' = "rc196"
    /\ UNCHANGED <<cfn, colmap_dir, use_gpu, images_dir_name, exits, sparseBefore>>
    /\ UNCHANGED notColmap

RcMapper == cpc = "rc196" /\ System(MapperCmd(colmap_dir), "rc197")

RcConvert == cpc = "rc197" /\ System(ConvertCmd(colmap_dir), "returned")

\* run_colmap_known_poses(colmap_dir, use_gpu, images_dir_name) is called
CallKnownPoses(d, g, n) ==
    /\ cpc = "ready"
    /\ cfn' = "run_colmap_known_poses"
    /\ colmap_dir' = d
    /\ use_gpu' = g
    /\ images_dir_name' = n
    /\ cpc' = "kp211"
    /\ sparseBefore' = sparseExists
    /\ UNCHANGED <<cmds, exits, sparseExists>>
    /\ UNCHANGED notColmap

StartKnownPoses ==
    \E d \in ColmapDirs, g \in BOOLEAN, n \in ImageDirNames : CallKnownPoses(d, g, n)

KpCleanup == cpc = "kp211" /\ System(CleanupCmd(colmap_dir, images_dir_name), "kp212")

KpFeatureExtractor ==
    cpc = "kp212" /\ System(KpFeatureCmd(colmap_dir, use_gpu, images_dir_name), "kp213")

KpMatcher == cpc = "kp213" /\ System(MatcherCmd(colmap_dir, use_gpu), "kp214")

KpTriangulator ==
    cpc = "kp214" /\ System(TriangulatorCmd(colmap_dir, images_dir_name), "kp215")

KpConvert == cpc = "kp215" /\ System(ConvertCmd(colmap_dir), "returned")

InitColmap ==
    /\ FramesIdle
    /\ BrickIdle
    /\ cfn = "none"
    /\ colmap_dir = <<>>
    /\ use_gpu = TRUE
    /\ images_dir_name = "images"
    /\ cpc = "ready"
    /\ cmds = <<>>
    /\ exits = <<>>
    /\ sparseExists \in BOOLEAN
    /\ sparseBefore = FALSE

NextColmap ==
    \/ StartRunColmap \/ RcCleanup \/ RcFeatureExtractor \/ RcMatcher
    \/ RcEnsureSparse \/ RcMapper \/ RcConvert
    \/ StartKnownPoses \/ KpCleanup \/ KpFeatureExtractor \/ KpMatcher
    \/ KpTriangulator \/ KpConvert

SpecColmap == InitColmap /\ [][NextColmap]_vars

\* ---------------------------------------------------------------------------
\* Properties of the orchestrations
\* ---------------------------------------------------------------------------
Subs(cs) == [i \in DOMAIN cs |-> cs[i].sub]

RunColmapOrder ==
    << "-rf", "feature_extractor", "exhaustive_matcher", "makedirs_if_absent",
       "mapper", "model_converter" >>

\* C7: run_colmap issues checkpoint cleanup, feature extraction, exhaustive
\* matching, creation of the sparse directory if absent, incremental mapping
\* and text conversion in this order, each once, whatever the exit statuses:
\* nothing is raised, the steps issued so far are always a prefix of that
\* order, the function returns exactly when all six are issued, and the
\* sparse directory is created exactly when it was absent.
C7_RunColmapOrder ==
    cfn = "run_colmap" =>
        /\ cpc # "raised"
        /\ Len(cmds) <= Len(RunColmapOrder)
        /\ Subs(cmds) = SubSeq(RunColmapOrder, 1, Len(cmds))
        /\ (cpc = "returned") <=> (Len(cmds) = Len(RunColmapOrder))
        /\ Len(cmds) >= 4 =>
             /\ sparseExists
             /\ cmds[4].args.made = ~sparseBefore
        /\ Len(exits) = Len(cmds) - (IF Len(cmds) >= 4 THEN 1 ELSE 0)

\* every external command failed, and the function still ran all its steps
C7_Witness ==
    /\ cfn = "run_colmap" /\ cpc = "returned"
    /\ Len(exits) = 5 /\ \A i \in DOMAIN exits : exits[i] # 0
    /\ ~sparseBefore

Sparse0(dir) == Join(dir, <<"sparse", "0">>)

\* C8: run_colmap_known_poses never invokes the mapper; after cleanup,
\* feature extraction and exhaustive matching it invokes point triangulation
\* exactly once, with clear_points 1 and <colmap_dir>/sparse/0 as both input
\* and output path, then converts that same directory to text; cleanup,
\* feature extraction and triangulation use <colmap_dir>/<images_dir_name>.
C8_KnownPosesTriangulates ==
    cfn = "run_colmap_known_poses" =>
        /\ cpc # "raised"
        /\ \A i \in DOMAIN cmds : cmds[i].sub # "mapper"
        /\ Subs(cmds) = SubSeq(<< "-rf", "feature_extractor", "exhaustive_matcher",
                                  "point_triangulator", "model_converter" >>,
                               1, Len(cmds))
        /\ (cpc = "returned") <=> (Len(cmds) = 5)
        /\ Len(cmds) >= 1 =>
             cmds[1].args.path = Join(colmap_dir, <<images_dir_name, ".ipynb_checkpoints">>)
        /\ Len(cmds) >= 2 =>
             cmds[2].args.image_path = Join(colmap_dir, <<images_dir_name>>)
        /\ Len(cmds) >= 4 =>
             /\ cmds[4].args.clear_points = "1"
             /\ cmds[4].args.input_path = Sparse0(colmap_dir)
             /\ cmds[4].args.output_path = Sparse0(colmap_dir)
             /\ cmds[4].args.image_path = Join(colmap_dir, <<images_dir_name>>)
        /\ Len(cmds) >= 5 =>
             /\ cmds[5].args.input_path = Sparse0(colmap_dir)
             /\ cmds[5].args.output_path = Sparse0(colmap_dir)
             /\ cmds[5].args.output_type = "TXT"

C8_Witness ==
    /\ cfn = "run_colmap_known_poses" /\ cpc = "returned"
    /\ images_dir_name = "image"
    /\ exits[4] # 0

FeatureCmds == { i \in DOMAIN cmds : cmds[i].sub = "feature_extractor" }

\* C9 as stated: the feature extraction of run_colmap_known_poses passes no
\* fixed camera model, that of run_colmap fixes PINHOLE and single camera.
C9_KnownPosesInfersCameraModel ==
    \A i \in FeatureCmds :
        IF cfn = "run_colmap_known_poses"
          THEN "camera_model" \notin DOMAIN cmds[i].args
          ELSE /\ cmds[i].args.camera_model = "PINHOLE"
               /\ cmds[i].args.single_camera = "1"

\* C9 amended: both scenarios fix the camera model to PINHOLE in feature
\* extraction; the known-pose scenario differs from the unknown-pose one in
\* that it does not pass the single-camera flag (and in the image directory).
C9_BothFixPinhole ==
    \A i \in FeatureCmds :
        /\ "camera_model" \in DOMAIN cmds[i].args
        /\ cmds[i].args.camera_model = "PINHOLE"
        /\ cmds[i].args.use_gpu = GpuFlag(use_gpu)
        /\ IF cfn = "run_colmap_known_poses"
             THEN /\ "single_camera" \notin DOMAIN cmds[i].args
                  /\ cmds[i].args.image_path = Join(colmap_dir, <<images_dir_name>>)
             ELSE /\ cmds[i].args.single_camera = "1"
                  /\ cmds[i].args.image_path = Join(colmap_dir, <<"images">>)

C9_Witness ==
    /\ cfn = "run_colmap_known_poses"
    /\ FeatureCmds # {}
    /\ cpc = "returned"

\* ---------------------------------------------------------------------------
\* matrix_to_quaternion, quaternion_to_matrix (colmap_utils.py 43-65)
\* ---------------------------------------------------------------------------
\* A quaternion component is the real number num / sqrt(nsq): the conversions
\* are computed in integers and the normalisation is carried as the squared
\* norm nsq, the same for the four components of one quaternion.
Abs(a) == IF a < 0 THEN -a ELSE a

SignOf(a) == IF a < 0 THEN -1 ELSE 1

\* index of the first maximum of a 4-vector (numpy argmax), 1-based
ArgMax4(d) ==
    CHOOSE i \in 1..4 : /\ \A j \in 1..4 : d[j] <= d[i]
                        /\ \A j \in 1..(i - 1) : d[j] < d[i]

\* R.from_matrix(rotation_matrix).as_quat(): scalar-last <<x, y, z, w>>
matrix_to_quaternion(m) ==
    LET tr == m[1][1] + m[2][2] + m[3][3]
        decision == << m[1][1], m[2][2], m[3][3], tr >>
        choice == ArgMax4(decision)
        i == choice
        j == (i % 3) + 1
        k == (j % 3) + 1
        raw == IF choice # 4
                 THEN [a \in 1..4 |->
                         IF a = i THEN 1 - tr + 2 * m[i][i]
                         ELSE IF a = j THEN m[j][i] + m[i][j]
                         ELSE IF a = k THEN m[k][i] + m[i][k]
                         ELSE m[k][j] - m[j][k]]
                 ELSE << m[3][2] - m[2][3], m[1][3] - m[3][1],
                         m[2][1] - m[1][2], 1 + tr >>
        nsq == raw[1] * raw[1] + raw[2] * raw[2] + raw[3] * raw[3] + raw[4] * raw[4]
    IN  [a \in 1..4 |-> [num |-> raw[a], nsq |-> nsq]]

\* R.from_quat(quaternion).as_matrix(), quaternion scalar-last <<x, y, z, w>>
quaternion_to_matrix(q) ==
    LET x == q[1].num
        y == q[2].num
        z == q[3].num
        w == q[4].num
        n == q[1].nsq
    IN  << << (w*w + x*x - y*y - z*z) \div n, (2 * (x*y - z*w)) \div n, (2 * (x*z + y*w)) \div n >>,
           << (2 * (x*y + z*w)) \div n, (w*w - x*x + y*y - z*z) \div n, (2 * (y*z - x*w)) \div n >>,
           << (2 * (x*z - y*w)) \div n, (2 * (y*z + x*w)) \div n, (w*w - x*x - y*y + z*z) \div n >> >>

\* ---------------------------------------------------------------------------
\* create_mobile_brick_colmap_files (colmap_utils.py 217-262)
\* ---------------------------------------------------------------------------
\* File names are strings of digits, compared as Python compares strings.
FileNames == { <<1>>, <<1, 0>>, <<2>> }

RECURSIVE LexLess(_, _)
LexLess(a, b) ==
    IF a = <<>> THEN b # <<>>
    ELSE IF b = <<>> THEN FALSE
    ELSE IF Head(a) # Head(b) THEN Head(a) < Head(b)
    ELSE LexLess(Tail(a), Tail(b))

RECURSIVE SortedNames(_)
\* sorted([f for f in os.listdir(d) ...], key=lambda x: x)
SortedNames(S) ==
    IF S = {} THEN <<>>
    ELSE LET m == CHOOSE x \in S : \A y \in S : x = y \/ LexLess(x, y)
         IN  <<m>> \o SortedNames(S \ {m})

Rigid(r, t) ==
    << << r[1][1], r[1][2], r[1][3], t[1] >>,
       << r[2][1], r[2][2], r[2][3], t[2] >>,
       << r[3][1], r[3][2], r[3][3], t[3] >>,
       << 0, 0, 0, 1 >> >>

\* camera-to-world matrices a pose file may hold: the identity rotation, a
\* quarter turn about z, a third of a turn about (1,1,1), half turns about x
\* and y, each with a translation
PoseSet ==
    { Rigid(<< <<1, 0, 0>>, <<0, 1, 0>>, <<0, 0, 1>> >>, <<1, 0, -2>>),
      Rigid(<< <<0, -1, 0>>, <<1, 0, 0>>, <<0, 0, 1>> >>, <<1, 2, 3>>),
      Rigid(<< <<0, 0, 1>>, <<1, 0, 0>>, <<0, 1, 0>> >>, <<0, 1, -1>>),
      Rigid(<< <<-1, 0, 0>>, <<0, 1, 0>>, <<0, 0, -1>> >>, <<2, 0, 1>>) }

Intrinsic(fx, fy, cx, cy) == << <<fx, 0, cx>>, <<0, fy, cy>>, <<0, 0, 1>> >>

RECURSIVE NameValue(_)
\* the number a file name spells
NameValue(n) == IF n = <<>> THEN 0 ELSE 10 * NameValue(SubSeq(n, 1, Len(n) - 1)) + n[Len(n)]

\* the intrinsic matrix the file of a given name holds: every file its own
IntrinsicOf(n) ==
    Intrinsic(500 + NameValue(n), 600 + NameValue(n), 300 - NameValue(n), 200 + NameValue(n))

Skip(k, r) == IF k < r THEN k ELSE k + 1

Minor(m, r, c) == [i \in 1..3 |-> [j \in 1..3 |-> m[Skip(i, r)][Skip(j, c)]]]

Det3(m) ==
      m[1][1] * (m[2][2] * m[3][3] - m[2][3] * m[3][2])
    - m[1][2] * (m[2][1] * m[3][3] - m[2][3] * m[3][1])
    + m[1][3] * (m[2][1] * m[3][2] - m[2][2] * m[3][1])

Sign(i, j) == IF (i + j) % 2 = 0 THEN 1 ELSE -1

Det4(m) ==
      m[1][1] * Det3(Minor(m, 1, 1)) - m[1][2] * Det3(Minor(m, 1, 2))
    + m[1][3] * Det3(Minor(m, 1, 3)) - m[1][4] * Det3(Minor(m, 1, 4))

\* np.linalg.inv(extrinsic), for a matrix whose inverse is integral
Inverse(m) ==
    LET d == Det4(m)
    IN  [i \in 1..4 |-> [j \in 1..4 |->
            (SignOf(d) * Sign(i, j) * Det3(Minor(m, j, i))) \div Abs(d)]]

\* extrinsic[:3, :3]
RotationBlock(m) == [i \in 1..3 |-> [j \in 1..3 |-> m[i][j]]]

\* extrinsic[:3, 3]
TranslationColumn(m) == [i \in 1..3 |-> m[i][4]]

ImageWidth == 1920

ImageHeight == 1440

\* line 242: the fields of an image record, as the header names them
ImageFields ==
    << "IMAGE_ID", "QW", "QX", "QY", "QZ", "TX", "TY", "TZ", "CAMERA_ID", "NAME" >>

\* line 256
CameraFields ==
    << "CAMERA_ID", "MODEL", "WIDTH", "HEIGHT", "FX", "FY", "CX", "CY" >>

Comment(text) == [kind |-> "comment", fields |-> <<text>>]

BlankLine == [kind |-> "blank", fields |-> <<>>]

ImagesHeader ==
    << Comment("# Image list with two lines of data per image:"),
       Comment("#   IMAGE_ID, QW, QX, QY, QZ, TX, TY, TZ, CAMERA_ID, NAME"),
       Comment("#   POINTS2D[] as (X, Y, POINT3D_ID)") >>

CamerasHeader ==
    << Comment("# Camera list with one line of data per camera:"),
       Comment("#   CAMERA_ID, MODEL, WIDTH, HEIGHT, PARAMS[]") >>

ImageLine_mut(i, extrinsic, image_file) ==
    LET inv == Inverse(extrinsic)
        q == matrix_to_quaternion(RotationBlock(inv))
        qw == q[1]
        qx == q[2]
        qy == q[3]
        qz == q[4]
        t == TranslationColumn(inv)
    IN  [kind |-> "image",
         fields |-> << i + 1, qw, qx, qy, qz, t[1], t[2], t[3], i + 1, image_file >>]

\* lines 246-250: the record of the pair number i (0-based) of the zip
ImageLine(i, extrinsic, image_file) ==
    LET inv == Inverse(extrinsic)
        q == matrix_to_quaternion(RotationBlock(inv))
        qx == q[1]
        qy == q[2]
        qz == q[3]
        qw == q[4]
        t == TranslationColumn(inv)
    IN  [kind |-> "image",
         fields |-> << i + 1, qw, qx, qy, qz, t[1], t[2], t[3], i + 1, image_file >>]

\* line 259
CameraLine(i, intrinsic) ==
    [kind |-> "camera",
     fields |-> << i + 1, "PINHOLE", ImageWidth, ImageHeight,
                   intrinsic[1][1], intrinsic[2][2], intrinsic[1][3], intrinsic[2][3] >>]

\* lines 235-237
extrinsics_files == SortedNames(DOMAIN poseDir)

intrinsics_files == SortedNames(DOMAIN intrDir)

image_files == SortedNames(imgDir)

\* zip(extrinsics_files, image_files) stops with the shorter list
ZipLen == Min(Len(extrinsics_files), Len(image_files))

RECURSIVE ImageLines(_)
\* lines 245-251: the lines of the first n pairs
ImageLines(n) ==
    IF n = 0 THEN <<>>
    ELSE ImageLines(n - 1)
           \o << ImageLine(n - 1, poseDir[extrinsics_files[n]], image_files[n]),
                 BlankLine >>

\* line 257: the name the camera loop reads for pair i (1-based) comes from
\* zip(extrinsics_files, image_files)
CameraFileOf(i) == extrinsics_files[i]

\* line 257: the camera loop runs over zip(extrinsics_files, image_files)
CameraLoopLen == ZipLen

\* line 258: np.loadtxt raises when <intrinsics_dir>/<name> does not exist
Missing(i) == CameraFileOf(i) \notin DOMAIN intrDir

\* the first pair whose intrinsic file is missing, or CameraLoopLen + 1
FirstMissing ==
    IF \E i \in 1..CameraLoopLen : Missing(i)
      THEN CHOOSE i \in 1..CameraLoopLen :
             Missing(i) /\ \A j \in 1..(i - 1) : ~Missing(j)
      ELSE CameraLoopLen + 1

RECURSIVE CameraLines(_)
\* lines 257-259: the lines of the first n pairs
CameraLines(n) ==
    IF n = 0 THEN <<>>
    ELSE CameraLines(n - 1) \o << CameraLine(n - 1, intrDir[CameraFileOf(n)]) >>

\* lines 228-251: the directories are listed and images.txt is written
WriteImages ==
    /\ bpc = "ready"
    /\ imagesTxt' = [exists |-> TRUE, lines |-> ImagesHeader \o ImageLines(ZipLen)]
    /\ bpc' = "b253"
    /\ UNCHANGED <<poseDir, intrDir, imgDir, camerasTxt, pointsTxt>>
    /\ UNCHANGED notBrick

\* lines 253-259, every intrinsic file read exists
WriteCameras ==
    /\ bpc = "b253"
    /\ FirstMissing > CameraLoopLen
    /\ camerasTxt' = [exists |-> TRUE, lines |-> CamerasHeader \o CameraLines(CameraLoopLen)]
    /\ bpc' = "b261"
    /\ UNCHANGED <<poseDir, intrDir, imgDir, imagesTxt, pointsTxt>>
    /\ UNCHANGED notBrick

\* lines 253-259, np.loadtxt raises at the first missing file: the with
\* statement closes cameras.txt holding the lines written before it
WriteCamerasRaises ==
    /\ bpc = "b253"
    /\ FirstMissing <= CameraLoopLen
    /\ camerasTxt' = [exists |-> TRUE, lines |-> CamerasHeader \o CameraLines(FirstMissing - 1)]
    /\ bpc' = "raised"
    /\ UNCHANGED <<poseDir, intrDir, imgDir, imagesTxt, pointsTxt>>
    /\ UNCHANGED notBrick

\* lines 261-262: points3D.txt is created empty
WritePoints ==
    /\ bpc = "b261"
    /\ pointsTxt' = [exists |-> TRUE, lines |-> <<>>]
    /\ bpc' = "returned"
    /\ UNCHANGED <<poseDir, intrDir, imgDir, imagesTxt, camerasTxt>>
    /\ UNCHANGED notBrick

\* the sets of at most MaxFiles file names a directory may hold
NameSets == { T \in SUBSET FileNames : Cardinality(T) <= MaxFiles }

InitBrick ==
    /\ FramesIdle
    /\ ColmapIdle
    /\ poseDir \in UNION { [S -> PoseSet] : S \in NameSets }
    /\ intrDir \in { [n \in S |-> IntrinsicOf(n)] : S \in NameSets }
    /\ imgDir \in NameSets
    /\ bpc = "ready"
    /\ imagesTxt = NoFile
    /\ camerasTxt = NoFile
    /\ pointsTxt = NoFile

NextBrick == WriteImages \/ WriteCameras \/ WriteCamerasRaises \/ WritePoints

SpecBrick == InitBrick /\ [][NextBrick]_vars

\* ---------------------------------------------------------------------------
\* Properties of the synthesizer
\* ---------------------------------------------------------------------------
IsData(l) == l.kind # "comment"

\* the lines of a file that are not comment lines
DataLines(f) == SelectSeq(f.lines, IsData)

\* the field of a record line that the header calls name
FieldOf(line, header, name) ==
    line.fields[CHOOSE i \in DOMAIN header : header[i] = name]

Terminated == bpc \in {"returned", "raised"}

\* M aligned files: the three directories hold M files each, the i-th of each
\* in lexicographic order belonging together
Aligned ==
    /\ Cardinality(DOMAIN poseDir) = Cardinality(imgDir)
    /\ Cardinality(DOMAIN intrDir) = Cardinality(imgDir)

OutputsForM(M) ==
    LET im == DataLines(imagesTxt)
        cam == DataLines(camerasTxt)
    IN  /\ imagesTxt.exists
        /\ Len(im) = 2 * M
        /\ \A i \in 1..M :
             /\ im[2 * i - 1].kind = "image"
             /\ im[2 * i].kind = "blank"
             /\ FieldOf(im[2 * i - 1], ImageFields, "IMAGE_ID") = i
             /\ FieldOf(im[2 * i - 1], ImageFields, "CAMERA_ID") = i
        /\ camerasTxt.exists
        /\ Len(cam) = M
        /\ \A i \in 1..M :
             /\ cam[i].kind = "camera"
             /\ SubSeq(cam[i].fields, 1, 4) = << i, "PINHOLE", 1920, 1440 >>
        /\ pointsTxt.exists
        /\ pointsTxt.lines = <<>>

\* C1: given M aligned pose, intrinsic and image files the call ends with an
\* images list of exactly M pairs (metadata line, blank line), a cameras list
\* of exactly M records each beginning '<id> PINHOLE 1920 1440', an empty
\* points3D file, image and camera ids 1..M in order and image record i
\* naming camera i.
C1_SynthesizerOutputs ==
    (Terminated /\ Aligned) => (bpc = "returned" /\ OutputsForM(Cardinality(imgDir)))

\* what holds of the code: the same, when moreover every pose file has the
\* name of an intrinsic file
C1_OutputsWhenNamesCoincide ==
    (Aligned /\ DOMAIN poseDir = DOMAIN intrDir) =>
        /\ bpc # "raised"
        /\ bpc = "returned" => OutputsForM(Cardinality(imgDir))

C1_NamesCoincideReached ==
    /\ Aligned /\ DOMAIN poseDir = DOMAIN intrDir
    /\ bpc = "returned" /\ Cardinality(imgDir) = 2

\* C2: the cameras list holds exactly one record per file of the intrinsic
\* directory, record i (id i) carrying fx, fy, cx, cy of the i-th intrinsic
\* file in lexicographic order of the intrinsic directory's own names,
\* whatever the three directories hold.
C2_CamerasFollowIntrinsics ==
    Terminated =>
        LET cam == DataLines(camerasTxt)
        IN  /\ bpc = "returned"
            /\ Len(cam) = Len(intrinsics_files)
            /\ \A i \in 1..Len(intrinsics_files) :
                 /\ FieldOf(cam[i], CameraFields, "CAMERA_ID") = i
                 /\ FieldOf(cam[i], CameraFields, "FX") = intrDir[intrinsics_files[i]][1][1]
                 /\ FieldOf(cam[i], CameraFields, "FY") = intrDir[intrinsics_files[i]][2][2]
                 /\ FieldOf(cam[i], CameraFields, "CX") = intrDir[intrinsics_files[i]][1][3]
                 /\ FieldOf(cam[i], CameraFields, "CY") = intrDir[intrinsics_files[i]][2][3]

MatMul4(a, b) ==
    [i \in 1..4 |-> [j \in 1..4 |->
        a[i][1] * b[1][j] + a[i][2] * b[2][j] + a[i][3] * b[3][j] + a[i][4] * b[4][j]]]

Identity4 == << <<1, 0, 0, 0>>, <<0, 1, 0, 0>>, <<0, 0, 1, 0>>, <<0, 0, 0, 1>> >>

\* the pose an image record holds: its quaternion fields taken by name and
\* put in scalar-last order, turned into a rotation, with its translation
PoseOfRecord(line) ==
    LET q == << FieldOf(line, ImageFields, "QX"), FieldOf(line, ImageFields, "QY"),
                FieldOf(line, ImageFields, "QZ"), FieldOf(line, ImageFields, "QW") >>
        t == << FieldOf(line, ImageFields, "TX"), FieldOf(line, ImageFields, "TY"),
                FieldOf(line, ImageFields, "TZ") >>
    IN  Rigid(quaternion_to_matrix(q), t)

\* C3: the record written for image i holds the pose of inverse(E_i), E_i the
\* i-th pose file: TX TY TZ are the translation column of inverse(E_i), the
\* fields QW QX QY QZ are the w, x, y, z components of
\* matrix_to_quaternion(rotation block of inverse(E_i)), and the pose read
\* back from the record by field name is the matrix whose product with E_i
\* is the identity.
C3_RecordHoldsInversePose ==
    imagesTxt.exists =>
        \A i \in 1..ZipLen :
            LET line == DataLines(imagesTxt)[2 * i - 1]
                E == poseDir[extrinsics_files[i]]
                q == matrix_to_quaternion(RotationBlock(Inverse(E)))
            IN  /\ MatMul4(E, PoseOfRecord(line)) = Identity4
                /\ MatMul4(PoseOfRecord(line), E) = Identity4
                /\ FieldOf(line, ImageFields, "QX") = q[1]
                /\ FieldOf(line, ImageFields, "QY") = q[2]
                /\ FieldOf(line, ImageFields, "QZ") = q[3]
                /\ FieldOf(line, ImageFields, "QW") = q[4]
                /\ << FieldOf(line, ImageFields, "TX"), FieldOf(line, ImageFields, "TY"),
                      FieldOf(line, ImageFields, "TZ") >> = TranslationColumn(Inverse(E))
                /\ FieldOf(line, ImageFields, "NAME") = image_files[i]

\* two records, the first of a quarter turn (its inverse differs from it in
\* rotation and translation), the second of another pose
C3_Witness ==
    /\ imagesTxt.exists /\ ZipLen = 2
    /\ LET E == poseDir[extrinsics_files[1]]
           line == DataLines(imagesTxt)[1]
       IN  /\ E[1][2] = -1
           /\ PoseOfRecord(line) # E
           /\ FieldOf(line, ImageFields, "TX") # E[1][4]
           /\ FieldOf(line, ImageFields, "QW").num # 0
           /\ FieldOf(line, ImageFields, "QZ").num # 0
    /\ poseDir[extrinsics_files[2]] # poseDir[extrinsics_files[1]]

====
